---- MODULE Spec2Model ----
(***************************************************************************)
(* Feature extraction with an on-disk cache (fid.py), the two FID entry    *)
(* points built on it, and the pairwise MS-SSIM sampler (msssim.py).       *)
(*                                                                         *)
(* A loader is a finite sequence of items; an item is a record             *)
(* [image, age, sex] whose image is a sequence of channels, each channel a *)
(* sequence of voxel values along the depth axis (batch size 1, the two    *)
(* in-plane axes collapsed to one value).  A feature directory is a        *)
(* partial function from the index i of feat_<i>.npz to the stored record. *)
(***************************************************************************)
EXTENDS Integers, Sequences, FiniteSets, TLC

(* ------------------------------ bounds -------------------------------- *)
MaxItems == 2      \* longest image loader
MaxSamples == 3    \* longest loader handed to compute_pairwise_msssim
MaxN == 3          \* largest sample budget N

(* ------------------------------- data --------------------------------- *)
ItemA == [image |-> << <<1, 3, 2>> >>, age |-> 30, sex |-> 0]
ItemZ == [image |-> << <<0, -1, 0>> >>, age |-> 40, sex |-> 1]
ItemRGB == [image |-> << <<1, 2, 3>>, <<4, 5, 6>>, <<7, 8, 9>> >>,
            age |-> 50, sex |-> 0]
Items == {ItemA, ItemZ, ItemRGB}

SeqsUpTo(S, n) == UNION {[1..k -> S] : k \in 0..n}
Loaders == SeqsUpTo(Items, MaxItems)

\* np.random.normal draws a fresh sample on every call: two possible outcomes
Draws == {"draw1", "draw2"}

Routines == {"medicalnet", "imagenet"}
DirNames == {"real", "fake"}

EmptyDir == [k \in {} |-> 0]
\* a file that a failed np.savez left behind: it exists, it holds no record
Truncated == [feat |-> <<"truncated">>, age |-> -1, sex |-> -1]
NoRun == [completed |-> FALSE, loader |-> <<>>]

(* -------------------------- volumetric variant ------------------------ *)
RECURSIVE Flatten(_)
Flatten(ss) == IF ss = <<>> THEN <<>> ELSE Head(ss) \o Flatten(Tail(ss))

\* volume[volume > 0]
Foreground(volume) == SelectSeq(Flatten(volume), LAMBDA v : v > 0)

\* pixels.mean(): NaN over an empty selection, no exception
Mean(pixels) == IF pixels = <<>> THEN <<"nan">> ELSE <<"mean", pixels>>

\* pixels.std(), the unbiased estimator: NaN below two elements, 0 when all
\* the elements are equal
Std(pixels) ==
    IF Len(pixels) < 2 THEN <<"nan">>
    ELSE IF \A k \in 1..Len(pixels) : pixels[k] = pixels[1] THEN <<"zero">>
    ELSE <<"std", pixels>>

\* (volume - mean) / std for one voxel
ZScore(v, pixels) ==
    IF Mean(pixels) = <<"nan">> \/ Std(pixels) = <<"nan">> THEN <<"nan">>
    ELSE IF Std(pixels) = <<"zero">>
         THEN (IF v = pixels[1] THEN <<"nan">> ELSE <<"inf">>)
    ELSE <<"z", v, pixels>>

\* __itensity_normalize_one_volume__: every voxel is z-scored against the
\* foreground, a voxel that was exactly zero gets a random draw instead.
\* Nothing is raised when the foreground is empty.
itensity_normalize_one_volume(volume, draw) ==
    [c \in 1..Len(volume) |->
        [d \in 1..Len(volume[c]) |->
            IF volume[c][d] = 0 THEN <<"normal", draw, c, d>>
            ELSE ZScore(volume[c][d], Foreground(volume))]]

NoForeground(item) == Foreground(item.image) = <<>>

(* ---------------------------- 2D-slice variant ------------------------ *)
\* image[:, :, image.shape[2] // 2]: the central slice of every channel
CentralSlice(image) ==
    [c \in 1..Len(image) |-> <<image[c][(Len(image[c]) \div 2) + 1]>>]

\* image.repeat(1, 3, 1, 1) under `if image.shape[1]:` (true of every image
\* that has a channel at all)
RepeatChannels(image) ==
    IF Len(image) # 0 THEN image \o image \o image ELSE image

\* image[:, [2, 1, 0], ...]
ReverseChannels(image) == <<image[3], image[2], image[1]>>

\* subtract_mean, in thousandths
ChannelMean == <<406, 456, 485>>
subtract_mean(x) ==
    [k \in 1..Len(x) |->
        [d \in 1..Len(x[k]) |->
            <<"px", IF k <= 3 THEN 1000 * x[k][d] - ChannelMean[k]
                    ELSE 1000 * x[k][d]>>]]

\* the backbone is a deterministic function of its input
Backbone(x) == <<"embedding", x>>

get_imagenet_features(image) ==
    Backbone(subtract_mean(ReverseChannels(RepeatChannels(image))))

(* ------------------------------ extraction ---------------------------- *)
\* the record np.savez is given for one item
FeatureRecord(r, data, draw) ==
    [feat |-> IF r = "medicalnet"
              THEN Backbone(itensity_normalize_one_volume(data.image, draw))
              ELSE get_imagenet_features(CentralSlice(data.image)),
     age |-> data.age, sex |-> data.sex]

\* `if skip_existing and os.path.exists(save_path): continue`
ShouldSkip_IgnoresExistence(skip, exists) == skip
ShouldSkip_Inverted(skip, exists) == skip /\ ~exists
ShouldSkip_Never(skip, exists) == FALSE
ShouldSkip(skip, exists) == skip /\ exists

\* save_path = os.path.join(dest_dir, f"feat_{i}.npz")
SavePath_OneBased(k) == k + 1
SavePath(k) == k

\* np.savez(save_path, ...): the file at save_path is created or replaced
Put_IntoFreshDir(dir, k, rec) == [x \in {k} |-> rec]
Put(dir, k, rec) == [x \in DOMAIN dir \cup {k} |-> IF x = k THEN rec ELSE dir[x]]

\* an exception raised inside the loop body leaves the loop and the function:
\* where the run stands afterwards
AfterRaise_Swallowed(p) == [pc |-> "extract", pos |-> p + 1]
AfterRaise(p) == [pc |-> "raised", pos |-> p]

VARIABLES
    dirs,            \* DirNames -> feature directory
    pc,              \* position of the extraction / evaluation in progress
    caller,          \* "direct" or "evaluate_fid"
    routine,         \* which of the two extraction routines runs
    dest,            \* dest_dir of the run
    loader,          \* the loader of the run
    skip_existing,
    pos,             \* i of enumerate(loader): items consumed so far
    seen,            \* index -> record found at save_path when item i was reached
    preprocessed,    \* indices preprocessed in this run
    inferred,        \* indices the backbone was invoked on in this run
    wrote,           \* index -> record this run wrote
    failedAt,        \* the indices whose np.savez raised in this run
    dir0,            \* dest_dir as it was when the run started
    prev,            \* the preceding run: whether it completed, and its loader
    run,             \* "none", then the "first" run, then the "rerun"
    real_img_loader, fake_img_loader,
    handed,          \* the two matrices handed to FIDMetric
    outcome,         \* what evaluate_fid_* gave its caller
    data_loader,     \* loader of compute_pairwise_msssim
    N,               \* its sample budget
    mpc,             \* its position
    i_outer,         \* i of the outer enumerate, -1 before the first item
    j_inner,         \* j of the inner enumerate, -1 before the first item
    count,
    tot_metric,      \* the terms added so far, in the order they were added
    late,            \* items fetched from a loader once count >= N held
    m_outcome        \* what compute_pairwise_msssim gave its caller

evars == <<dirs, pc, caller, routine, dest, loader, skip_existing, pos, seen,
           preprocessed, inferred, wrote, failedAt, dir0, prev, run>>
fvars == <<real_img_loader, fake_img_loader, handed, outcome>>

mvars == <<data_loader, N, mpc, i_outer, j_inner, count, tot_metric, late,
           m_outcome>>

vars == <<evars, fvars, mvars>>

NotHanded == [given |-> FALSE, real |-> <<>>, fake |-> <<>>]

FidIdle ==
    /\ real_img_loader = <<>>
    /\ fake_img_loader = <<>>
    /\ handed = NotHanded
    /\ outcome = "none"

NoOutcome == [kind |-> "none", sum |-> <<>>, n |-> 0]

MsssimIdle ==
    /\ data_loader = <<>>
    /\ N = 0
    /\ mpc = "idle"
    /\ i_outer = -1
    /\ j_inner = -1
    /\ count = 0
    /\ tot_metric = <<>>
    /\ late = {}
    /\ m_outcome = NoOutcome

ExtractInit ==
    /\ dirs = [d \in DirNames |-> EmptyDir]
    /\ pc = "idle"
    /\ caller = "direct"
    /\ routine = "medicalnet"
    /\ dest = "real"
    /\ loader = <<>>
    /\ skip_existing = FALSE
    /\ pos = 0
    /\ seen = EmptyDir
    /\ preprocessed = {}
    /\ inferred = {}
    /\ wrote = EmptyDir
    /\ failedAt = {}
    /\ dir0 = EmptyDir
    /\ prev = NoRun
    /\ run = "none"
    /\ FidIdle
    /\ MsssimIdle

\* a call of _extract_<routine>_features_to_dir(loader, dest_dir, ...)
BeginRun(r, l, d, s) ==
    /\ routine' = r
    /\ loader' = l
    /\ dest' = d
    /\ skip_existing' = s
    /\ pos' = 0
    /\ seen' = EmptyDir
    /\ preprocessed' = {}
    /\ inferred' = {}
    /\ wrote' = EmptyDir
    /\ failedAt' = {}
    /\ dir0' = dirs[d]
    /\ pc' = "extract"

CallExtract ==
    /\ pc \in {"idle", "returned", "raised"}
    /\ caller = "direct"
    /\ run # "rerun"
    /\ \E r \in Routines, l \in Loaders, s \in BOOLEAN : BeginRun(r, l, "real", s)
    /\ run' = IF run = "none" THEN "first" ELSE "rerun"
    /\ prev' = [completed |-> pc = "returned", loader |-> loader]
    /\ UNCHANGED <<dirs, caller, fvars, mvars>>

\* one iteration of `for i, data in enumerate(loader)`
ExtractItem ==
    /\ pc = "extract"
    /\ pos < Len(loader)
    /\ LET data == loader[pos + 1]
           dir == dirs[dest]
           k == SavePath(pos)
           exists == k \in DOMAIN dir
       IN  /\ seen' = IF exists THEN Put(seen, pos, dir[k]) ELSE seen
           /\ \/ /\ ShouldSkip(skip_existing, exists)
                 /\ pos' = pos + 1
                 /\ UNCHANGED <<dirs, pc, preprocessed, inferred, wrote, failedAt,
                                prev>>
              \/ /\ ~ShouldSkip(skip_existing, exists)
                 /\ preprocessed' = preprocessed \cup {pos}
                 /\ inferred' = inferred \cup {pos}
                 /\ \E draw \in Draws :
                     LET rec == FeatureRecord(routine, data, draw)
                     IN  \/ /\ dirs' = [dirs EXCEPT ![dest] = Put(dir, k, rec)]
                            /\ wrote' = Put(wrote, pos, rec)
                            /\ pos' = pos + 1
                            /\ UNCHANGED <<pc, failedAt, prev>>
                         \/ \* np.savez raises: the file is untouched, or is
                            \* left behind truncated
                            /\ dirs' \in {dirs,
                                          [dirs EXCEPT ![dest] = Put(dir, k, Truncated)]}
                            /\ failedAt' = failedAt \cup {pos}
                            /\ pc' = AfterRaise(pos).pc
                            /\ pos' = AfterRaise(pos).pos
                            /\ UNCHANGED <<wrote, prev>>
    /\ UNCHANGED <<caller, routine, dest, loader, skip_existing, dir0, run, fvars, mvars>>

\* the loader is exhausted: the routine returns
ExtractReturn ==
    /\ pc = "extract"
    /\ pos = Len(loader)
    /\ caller = "direct"
    /\ pc' = "returned"
    /\ UNCHANGED <<dirs, caller, routine, dest, loader, skip_existing, pos, seen,
                   preprocessed, inferred, wrote, failedAt, dir0, prev, run, fvars,
                   mvars>>

ExtractNext == CallExtract \/ ExtractItem \/ ExtractReturn

SpecExtract == ExtractInit /\ [][ExtractNext]_vars

(* ----------------------------- evaluate_fid --------------------------- *)
RECURSIVE Ascending(_)
Ascending(S) ==
    IF S = {} THEN <<>>
    ELSE LET m == CHOOSE x \in S : \A y \in S : x <= y
         IN  <<m>> \o Ascending(S \ {m})

Min(a, b) == IF a <= b THEN a ELSE b

HasGap(dir) == DOMAIN dir # 0..(Cardinality(DOMAIN dir) - 1)

\* create_dataloader_from_dir: the records of the directory in ascending
\* index order; MissingRecord when an index of [0, count) has no record
create_dataloader_from_dir(dir) ==
    [ok |-> ~HasGap(dir),
     feats |-> LET idx == Ascending(DOMAIN dir)
               IN  [k \in 1..Len(idx) |-> dir[idx[k]].feat]]

\* lines 134-142: both feature loaders are made, zip pairs them up to the
\* shorter one, the two lists are stacked and handed to FIDMetric
\* (torch.vstack raises on an empty list)
FidTail_LoadErrorSwallowed(real_feat_loader, fake_feat_loader) ==
    LET n == Min(Len(real_feat_loader.feats), Len(fake_feat_loader.feats))
    IN  IF n = 0
        THEN [pc |-> "load_raised", outcome |-> "RuntimeError", handed |-> NotHanded]
        ELSE [pc |-> "evaluated", outcome |-> "distance",
              handed |-> [given |-> TRUE,
                          real |-> SubSeq(real_feat_loader.feats, 1, n),
                          fake |-> SubSeq(fake_feat_loader.feats, 1, n)]]
FidTail(real_feat_loader, fake_feat_loader) ==
    LET n == Min(Len(real_feat_loader.feats), Len(fake_feat_loader.feats))
    IN  IF ~real_feat_loader.ok \/ ~fake_feat_loader.ok
        THEN [pc |-> "load_raised", outcome |-> "MissingRecord", handed |-> NotHanded]
        ELSE IF n = 0
        THEN [pc |-> "load_raised", outcome |-> "RuntimeError", handed |-> NotHanded]
        ELSE [pc |-> "evaluated", outcome |-> "distance",
              handed |-> [given |-> TRUE,
                          real |-> SubSeq(real_feat_loader.feats, 1, n),
                          fake |-> SubSeq(fake_feat_loader.feats, 1, n)]]

\* the image loaders of an evaluation: the first n items of a fixed dataset
ItemCycle == <<ItemA, ItemZ, ItemRGB>>
ItemAt(k) == ItemCycle[((k - 1) % Len(ItemCycle)) + 1]
FidLoaders == {[k \in 1..n |-> ItemAt(k)] : n \in 0..MaxItems}

\* what the caller's directories may hold before the call: records of an
\* earlier session at any indices
PriorRecord == FeatureRecord("imagenet", ItemA, "draw1")
PriorDirs == {[k \in S |-> PriorRecord] : S \in SUBSET (0..MaxItems)}

FidInit ==
    /\ dirs \in [DirNames -> PriorDirs]
    /\ pc = "idle"
    /\ caller = "evaluate_fid"
    /\ routine = "medicalnet"
    /\ dest = "real"
    /\ loader = <<>>
    /\ skip_existing = FALSE
    /\ pos = 0
    /\ seen = EmptyDir
    /\ preprocessed = {}
    /\ inferred = {}
    /\ wrote = EmptyDir
    /\ failedAt = {}
    /\ dir0 = EmptyDir
    /\ prev = NoRun
    /\ run = "none"
    /\ FidIdle
    /\ MsssimIdle

\* evaluate_fid_medicalnet3d / evaluate_fid_imagenet2d is called: the
\* extraction over the real loader starts
CallEvaluateFid ==
    /\ pc = "idle"
    /\ caller = "evaluate_fid"
    /\ \E r \in Routines, rl \in FidLoaders, fl \in FidLoaders, s \in BOOLEAN :
        /\ real_img_loader' = rl
        /\ fake_img_loader' = fl
        /\ BeginRun(r, rl, "real", s)
    /\ run' = "first"
    /\ UNCHANGED <<dirs, caller, prev, handed, outcome, mvars>>

\* the extraction over the real loader returned: the one over the fake
\* loader starts
ExtractFake ==
    /\ pc = "extract"
    /\ pos = Len(loader)
    /\ caller = "evaluate_fid"
    /\ dest = "real"
    /\ BeginRun(routine, fake_img_loader, "fake", skip_existing)
    /\ UNCHANGED <<dirs, caller, prev, run, fvars, mvars>>

\* both extractions returned: the features are read back and compared
LoadAndCompare ==
    /\ pc = "extract"
    /\ pos = Len(loader)
    /\ caller = "evaluate_fid"
    /\ dest = "fake"
    /\ LET r == FidTail(create_dataloader_from_dir(dirs["real"]),
                        create_dataloader_from_dir(dirs["fake"]))
       IN  /\ pc' = r.pc
           /\ outcome' = r.outcome
           /\ handed' = r.handed
    /\ UNCHANGED <<dirs, caller, routine, dest, loader, skip_existing, pos, seen,
                   preprocessed, inferred, wrote, failedAt, dir0, prev, run,
                   real_img_loader, fake_img_loader, mvars>>

FidNext == CallEvaluateFid \/ ExtractItem \/ ExtractFake \/ LoadAndCompare

SpecFid == FidInit /\ [][FidNext]_vars

(* ------------------------ compute_pairwise_msssim --------------------- *)
Volumes == {"vol_a", "vol_b", "vol_c"}
SampleLoaders == SeqsUpTo([vol_data : Volumes], MaxSamples)

\* msssim(img1, img2).item(): a function of the ordered pair
Msssim(img1, img2) == <<"msssim", img1, img2>>

\* `if count >= N: break`
BudgetReached_Strict(c, n) == c > n
BudgetReached(c, n) == c >= n

\* `if i != j:`
IsPair_Upper(a, b) == a < b
IsPair(a, b) == a # b

MsssimInit ==
    /\ dirs = [d \in DirNames |-> EmptyDir]
    /\ pc = "idle"
    /\ caller = "none"
    /\ routine = "medicalnet"
    /\ dest = "real"
    /\ loader = <<>>
    /\ skip_existing = FALSE
    /\ pos = 0
    /\ seen = EmptyDir
    /\ preprocessed = {}
    /\ inferred = {}
    /\ wrote = EmptyDir
    /\ failedAt = {}
    /\ dir0 = EmptyDir
    /\ prev = NoRun
    /\ run = "none"
    /\ FidIdle
    /\ data_loader \in SampleLoaders
    /\ N \in 0..MaxN
    /\ mpc = "outer"
    /\ i_outer = -1
    /\ j_inner = -1
    /\ count = 0
    /\ tot_metric = <<>>
    /\ late = {}
    /\ m_outcome = NoOutcome

\* `for i, data1 in enumerate(loader)`: the next outer item, or the end
OuterNext ==
    /\ mpc = "outer"
    /\ \/ /\ i_outer + 1 < Len(data_loader)
          /\ i_outer' = i_outer + 1
          /\ j_inner' = -1
          /\ mpc' = "inner"
          /\ late' = IF BudgetReached(count, N)
                     THEN late \cup {<<"outer", i_outer + 1, -1>>} ELSE late
       \/ /\ i_outer + 1 >= Len(data_loader)
          /\ mpc' = "return"
          /\ UNCHANGED <<i_outer, j_inner, late>>
    /\ UNCHANGED <<data_loader, N, count, tot_metric, m_outcome, evars, fvars>>

\* `for j, data2 in enumerate(loader)`: the next inner item and the loop
\* body on it, or the end of the inner loop
InnerNext ==
    /\ mpc = "inner"
    /\ \/ /\ j_inner + 1 < Len(data_loader)
          /\ j_inner' = j_inner + 1
          /\ late' = IF BudgetReached(count, N)
                     THEN late \cup {<<"inner", i_outer, j_inner + 1>>} ELSE late
          /\ IF BudgetReached(count, N)
             THEN /\ mpc' = "outer"
                  /\ UNCHANGED <<count, tot_metric>>
             ELSE IF IsPair(i_outer, j_inner + 1)
             THEN /\ tot_metric' =
                        Append(tot_metric,
                               Msssim(data_loader[i_outer + 1].vol_data,
                                      data_loader[j_inner + 2].vol_data))
                  /\ count' = count + 1
                  /\ UNCHANGED mpc
             ELSE UNCHANGED <<mpc, count, tot_metric>>
       \/ /\ j_inner + 1 >= Len(data_loader)
          /\ mpc' = "outer"
          /\ UNCHANGED <<j_inner, late, count, tot_metric>>
    /\ UNCHANGED <<data_loader, N, i_outer, m_outcome, evars, fvars>>

\* `return tot_metric / count`
Return ==
    /\ mpc = "return"
    /\ IF count = 0
       THEN /\ mpc' = "raised"
            /\ m_outcome' = [kind |-> "ZeroDivisionError", sum |-> <<>>, n |-> 0]
       ELSE /\ mpc' = "returned"
            /\ m_outcome' = [kind |-> "average", sum |-> tot_metric, n |-> count]
    /\ UNCHANGED <<data_loader, N, i_outer, j_inner, count, tot_metric, late,
                   evars, fvars>>

MsssimNext == OuterNext \/ InnerNext \/ Return

SpecMsssim == MsssimInit /\ [][MsssimNext]_vars

(* ------------------- properties of the extraction runs ---------------- *)
\* the indices of the items this run has reached
Reached == 0..(pos - 1) \cup failedAt
InRun == pc \in {"extract", "returned", "raised"}

\* C1: for every item reached at position i, the backbone is invoked and
\* feat_i written iff NOT (skip_existing and feat_i existed when item i was
\* reached); a skipped item costs no inference and keeps its record; a
\* resumed run infers exactly the indices that had no record.
C1_SkipIffExisting ==
    InRun =>
      /\ \A k \in Reached :
            /\ k \in inferred <=> ~(skip_existing /\ k \in DOMAIN seen)
            /\ (k \in inferred /\ k \notin failedAt) =>
                    /\ k \in DOMAIN wrote
                    /\ k \in DOMAIN dirs[dest]
                    /\ dirs[dest][k] = wrote[k]
            /\ k \notin inferred =>
                    /\ k \notin DOMAIN wrote
                    /\ k \notin preprocessed
                    /\ dirs[dest][k] = seen[k]
      /\ (pc = "returned" /\ skip_existing) =>
            inferred = {k \in 0..(Len(loader) - 1) : k \notin DOMAIN dir0}

C1_Witness ==
    /\ pc = "returned"
    /\ skip_existing
    /\ DOMAIN dir0 = {0}
    /\ inferred = {1}
    /\ DOMAIN seen = {0}

\* C2: a run with skip_existing over the loader of the completed run before
\* it invokes the backbone for nothing and leaves the directory as it was.
C2_RerunIsNoOp ==
    (InRun /\ skip_existing /\ prev.completed /\ prev.loader = loader) =>
        /\ inferred = {}
        /\ preprocessed = {}
        /\ dirs[dest] = dir0
        /\ pc # "raised"

C2_Witness ==
    /\ pc = "returned"
    /\ skip_existing
    /\ prev.completed
    /\ prev.loader = loader
    /\ Len(loader) >= 2

\* C5: a failed write of feat_i stops the run at i: the failure reaches the
\* caller, nothing beyond i is preprocessed, inferred or written, what was
\* written stays, and no written index has a missing index below it.
C5_WriteFailureStops ==
    InRun =>
      /\ \A f \in failedAt :
            /\ pc = "raised"
            /\ pos = f
            /\ \A k \in preprocessed \cup inferred : k <= f
            /\ \A k \in DOMAIN wrote : k < f
      /\ \A w \in DOMAIN wrote :
            /\ w \in DOMAIN dirs[dest] /\ dirs[dest][w] = wrote[w]
            /\ \A k \in 0..(w - 1) : k \in DOMAIN dirs[dest]

C5_Witness ==
    /\ pc = "raised"
    /\ \E f \in failedAt : f + 1 < Len(loader)

\* C9 (as claimed): the volumetric routine never invokes the backbone on,
\* nor writes a record for, an item without a voxel above zero.
C9_DegenerateRejected ==
    (InRun /\ routine = "medicalnet") =>
        \A k \in 0..(Len(loader) - 1) :
            NoForeground(loader[k + 1]) =>
                k \notin inferred /\ k \notin DOMAIN wrote

Preserved ==
    \A d \in DirNames : \A k \in DOMAIN dirs[d] :
        k \in DOMAIN dirs'[d] /\ dirs'[d][k] = dirs[d][k]

\* C10 (as claimed): once feat_i exists its contents never change, whatever
\* skip_existing is.
C10_NeverMutated == [][Preserved]_vars

\* C10 (amended): a record that exists changes only in a step of a run whose
\* skip_existing is false; under skip_existing no existing record changes.
C10_MutatedOnlyWithoutSkip ==
    [][Preserved \/ (pc = "extract" /\ ~skip_existing)]_vars

\* a rerun with skip_existing has passed a record that differs from what the
\* item now at that index would give
C10_Witness ==
    /\ run = "rerun"
    /\ pc = "returned"
    /\ skip_existing
    /\ 0 \in DOMAIN seen
    /\ \A draw \in Draws : seen[0] # FeatureRecord(routine, loader[1], draw)
    /\ dirs[dest][0] = seen[0]

(* ---------------------- properties of evaluate_fid -------------------- *)
\* the directory holds one record per item of the loader and nothing else
Complete(dir, l) == DOMAIN dir = 0..(Len(l) - 1)

\* C3 (as claimed): each matrix handed to the distance has as many rows as
\* its image loader yielded items, in ascending index order, whatever the
\* two loader sizes are (stated for two complete caches).
C3_RowsMatchLoaders ==
    (/\ handed.given
     /\ Complete(dirs["real"], real_img_loader)
     /\ Complete(dirs["fake"], fake_img_loader)) =>
        /\ Len(handed.real) = Len(real_img_loader)
        /\ Len(handed.fake) = Len(fake_img_loader)
        /\ \A k \in 1..Len(handed.real) : handed.real[k] = dirs["real"][k - 1].feat
        /\ \A k \in 1..Len(handed.fake) : handed.fake[k] = dirs["fake"][k - 1].feat

C6_StopsAtBudget == late = {} /\ count <= N

TwoDistinct ==
    /\ Len(data_loader) = 2
    /\ data_loader[1] # data_loader[2]
    /\ N >= 1

PairTerm(a, b) == Msssim(data_loader[a].vol_data, data_loader[b].vol_data)

\* C7 (as claimed): with two distinct samples and N >= 1 the result is the
\* similarity of the one ordered pair (sample 0, sample 1).
C7_SinglePair ==
    (TwoDistinct /\ mpc = "returned") =>
        m_outcome = [kind |-> "average", sum |-> <<PairTerm(1, 2)>>, n |-> 1]

\* C7 (amended): with two distinct samples, N = 1 gives the similarity of the
\* ordered pair (sample 0, sample 1); every N >= 2 gives the average of the
\* two ordered pairs (0, 1) and (1, 0).
C7_OneOrBothPairs ==
    (TwoDistinct /\ mpc \in {"returned", "raised"}) =>
        m_outcome =
            IF N = 1
            THEN [kind |-> "average", sum |-> <<PairTerm(1, 2)>>, n |-> 1]
            ELSE [kind |-> "average",
                  sum |-> <<PairTerm(1, 2), PairTerm(2, 1)>>, n |-> 2]

C7_Witness ==
    /\ TwoDistinct
    /\ mpc = "returned"
    /\ N >= 2
    /\ m_outcome.n = 2

\* C8 (as claimed): tot_metric / count is never evaluated with count = 0.
C8_NoDivisionByZero == m_outcome.kind # "ZeroDivisionError"

\* the ordered pairs (i, j) of 0..n-1 with i # j: for each i in order, for
\* each j in order
OrderedPairs(n) ==
    SelectSeq([p \in 1..(n * n) |-> <<(p - 1) \div n, (p - 1) % n>>],
              LAMBDA q : q[1] # q[2])

PairBudget == Min(N, Len(data_loader) * (Len(data_loader) - 1))

\* C11: when min(N, n*(n-1)) >= 1 the similarities evaluated are those of the
\* first min(N, n*(n-1)) ordered pairs (i, j), i # j, in lexicographic order,
\* each once as metric(sample_i, sample_j), and the value returned is their
\* sum divided by their number.
C11_FirstPairsInOrder ==
    (mpc \in {"returned", "raised"} /\ PairBudget >= 1) =>
        m_outcome =
            [kind |-> "average",
             sum |-> [k \in 1..PairBudget |->
                        PairTerm(OrderedPairs(Len(data_loader))[k][1] + 1,
                                 OrderedPairs(Len(data_loader))[k][2] + 1)],
             n |-> PairBudget]

\* the budget cuts the pairs short in the second row, and it is not a
\* multiple of a row
C11_Witness ==
    /\ mpc = "returned"
    /\ Len(data_loader) = 3
    /\ N = 3
    /\ m_outcome.n = 3
    /\ m_outcome.sum[3] = PairTerm(2, 1)

(* --------------- contents of the directory after a run ---------------- *)
\* C12: a completed run with skip_existing = FALSE over n items into an empty
\* destination leaves exactly feat_0 .. feat_{n-1}, and feat_i holds the
\* embedding computed from the i-th item together with that item's age and
\* sex.
C12_RecordsPairedWithItems ==
    (pc = "returned" /\ ~skip_existing /\ dir0 = EmptyDir) =>
        /\ DOMAIN dirs[dest] = 0..(Len(loader) - 1)
        /\ \A k \in 0..(Len(loader) - 1) :
            /\ \E draw \in Draws :
                dirs[dest][k].feat = FeatureRecord(routine, loader[k + 1], draw).feat
            /\ dirs[dest][k].age = loader[k + 1].age
            /\ dirs[dest][k].sex = loader[k + 1].sex

\* two items that differ in image, age and sex
C12_Witness ==
    /\ pc = "returned"
    /\ ~skip_existing
    /\ dir0 = EmptyDir
    /\ Len(loader) = 2
    /\ loader[1].age # loader[2].age
    /\ loader[1].sex # loader[2].sex
    /\ dirs[dest][0].feat # dirs[dest][1].feat

(* ------------------- channels of the 2D-slice variant ----------------- *)
\* C13 (as claimed): in _get_imagenet_features only a single-channel slice
\* is replicated, to three equal channels; a slice that has three channels
\* is not replicated; after the reversal output channel k is input channel
\* 2 - k.
C13_RepeatOnlySingleChannel ==
    (InRun /\ routine = "imagenet") =>
        \A k \in inferred :
            LET image == CentralSlice(loader[k + 1].image)
                three == IF Len(image) = 1
                         THEN <<image[1], image[1], image[1]>> ELSE image
            IN  Len(image) \in {1, 3} =>
                    /\ RepeatChannels(image) = three
                    /\ \A c \in 1..3 :
                        ReverseChannels(RepeatChannels(image))[c] = three[4 - c]

(* ------------------------- frame of a run ----------------------------- *)
\* C14: a run over n items creates or replaces records only at indices of
\* [0, n) of its destination and deletes none: a record that was there at an
\* index >= n is still there, unchanged, and the destination is not emptied
\* when the run starts.
C14_OnlyOwnIndices ==
    InRun =>
        /\ DOMAIN dir0 \subseteq DOMAIN dirs[dest]
        /\ DOMAIN dirs[dest] \subseteq DOMAIN dir0 \cup 0..(Len(loader) - 1)
        /\ \A k \in DOMAIN dir0 :
            (k >= Len(loader) \/ k \notin Reached) =>
                dirs[dest][k] = dir0[k]
        /\ \A d \in DirNames \ {dest} : dirs[d] = EmptyDir

\* a run over a shorter loader than the one that filled the destination
C14_Witness ==
    /\ pc = "returned"
    /\ ~skip_existing
    /\ Len(loader) = 1
    /\ DOMAIN dir0 = {0, 1}
    /\ dirs[dest][0] # dir0[0]
    /\ dirs[dest][1] = dir0[1]

====
